---- MODULE Spec2Model ----
(***************************************************************************)
(* Model of the cloudrun-action GitHub action: main() selects the          *)
(* create-or-update path (create) or the delete path (destroy); the        *)
(* create path waits for the docker image (waitForDockerImage), inspects   *)
(* it (getEnvVarsFromImage), reconciles the Cloud Run service              *)
(* (ServiceConfiguration.createOrUpdate) and polls its status (getStatus). *)
(* Every remote call is one step whose answer is chosen by the remote      *)
(* side; the handlers around the call (catch blocks, setFailed, comment    *)
(* updates, returns) are part of the step.                                 *)
(***************************************************************************)
EXTENDS Integers, Sequences, FiniteSets, TLC

(* ------------------------------ bounds --------------------------------- *)
\* length of the service names drawn for the input `name`
MaxNameLen ==
    2
\* number of consecutive invocations of the action that are followed
MaxRuns ==
    2
\* cap on the image checks of one run (the loop is unbounded for interval 0)
MaxWaitAttempts ==
    4

(* --------------------------- program constants ------------------------- *)
\* variant: the loop condition written attempt <= 100
StatusMaxAttemptsOffByOne ==
    100 + 1
\* getStatus: while (attempt < 100)
StatusMaxAttempts ==
    100
\* getStatus: await delay(500)
StatusDelayMs ==
    500

(* ------------------------------ inputs --------------------------------- *)
NameChars ==
    {"a", "_"}
Names ==
    [1..MaxNameLen -> NameChars]
\* a GitHub input is a string; "" is an input given as empty
BoolInputs ==
    {"false", "true", ""}
\* image_check_timeout (minutes) and image_check_interval (seconds)
TimeoutChoices ==
    {-1, 0, 1}
IntervalChoices ==
    {-30, 0, 20, 30, 40, 60}

\* service_account_key: the key material itself, or the path of an existing
\* file that holds it
KeyInputs ==
    {"key_material", "path_of_key_file"}
\* the progress reporter (pull-request comments): its calls all succeed, or
\* each of them may raise
ReporterKinds ==
    {"reliable", "failing"}

(* --------------------------- remote answers ---------------------------- *)
\* "ok": the call succeeded; "404": GaxiosError with response.status 404;
\* "gaxios_status": GaxiosError with another status (401, 403, 409, 5xx);
\* "gaxios_noresp": GaxiosError without a response (network error);
\* "other": a thrown value that is not a GaxiosError
CallOutcomes ==
    {"ok", "404", "gaxios_status", "gaxios_noresp", "other"}
IsGaxios(o) ==
    o \in {"404", "gaxios_status", "gaxios_noresp"}
\* error.response?.status === 404
Status404(o) ==
    o = "404"

NoUrl ==
    "none"
UnknownRes ==
    [cond |-> "Unknown", url |-> NoUrl, message |-> "m0", lastTransitionTime |-> "t0"]
\* the status documents the remote platform may answer to a status get:
\* conditions[0].status, status.url, conditions[0].message and
\* conditions[0].lastTransitionTime. A service that is being replaced may
\* still report the url of its previous revision
StatusResponses ==
    { UnknownRes,
      [cond |-> "Unknown", url |-> "u1", message |-> "m0", lastTransitionTime |-> "t0"],
      [cond |-> "True", url |-> "u1", message |-> "m1", lastTransitionTime |-> "t1"],
      [cond |-> "True", url |-> NoUrl, message |-> "m2", lastTransitionTime |-> "t2"],
      [cond |-> "False", url |-> NoUrl, message |-> "m1", lastTransitionTime |-> "t1"],
      [cond |-> "False", url |-> "u2", message |-> "m2", lastTransitionTime |-> "t2"] }

NoOutcome ==
    [url |-> NoUrl, logsName |-> <<>>, deploymentDate |-> "none"]
NoErr ==
    [message |-> "none", logsLink |-> FALSE]

(* ------------------------------ strings -------------------------------- *)
\* a string is the sequence of its characters; positions count from 0 as in
\* JavaScript. String.prototype.indexOf and lastIndexOf answer -1 when the
\* character does not occur
indexOf(s, c) ==
    IF \E i \in 1..Len(s) : s[i] = c
    THEN (CHOOSE i \in 1..Len(s) : s[i] = c /\ \A j \in 1..(i - 1) : s[j] # c) - 1
    ELSE -1
lastIndexOf(s, c) ==
    IF \E i \in 1..Len(s) : s[i] = c
    THEN (CHOOSE i \in 1..Len(s) : s[i] = c /\ \A j \in (i + 1)..Len(s) : s[j] # c) - 1
    ELSE -1
\* String.prototype.substring(start, end): both arguments are clamped to
\* 0..length and swapped when start > end
clamp(i, n) ==
    IF i < 0 THEN 0 ELSE IF i > n THEN n ELSE i
substring(s, start, end) ==
    LET a == clamp(start, Len(s))
        b == clamp(end, Len(s))
    IN  IF a <= b THEN SubSeq(s, a + 1, b) ELSE SubSeq(s, b + 1, a)

(* -------------------------- image references --------------------------- *)
\* the image references drawn for the input `image`: host/repo:tag, the
\* repository made of one or more segments
MaxSegments ==
    3
Hosts ==
    {<<"g">>, <<"e", "u">>}
PathSegments ==
    {<<"p">>, <<"x">>}
Tags ==
    {<<"v">>, <<"v", "1">>}
RECURSIVE joinSegments(_)
joinSegments(segs) ==
    IF Len(segs) = 1 THEN segs[1]
    ELSE segs[1] \o <<"/">> \o joinSegments(Tail(segs))
Repositories ==
    {joinSegments(segs) : segs \in UNION {[1..n -> PathSegments] : n \in 1..MaxSegments}}
imageRef(host, repo, tag) ==
    host \o <<"/">> \o repo \o <<":">> \o tag
ImageRefs ==
    {imageRef(h, r, t) : h \in Hosts, r \in Repositories, t \in Tags}
\* the project id of the credentials, answered by auth.getProjectId()
Projects ==
    {<<"p">>, <<"q">>}

\* new URL(`https://${image}`) of a reference without port, query or
\* fragment: host is what precedes the first "/", pathname starts at it
urlHost(img) ==
    substring(img, 0, indexOf(img, "/"))
urlPathname(img) ==
    substring(img, indexOf(img, "/"), Len(img))
\* docker.ts 478-484
imageName(img) ==
    substring(urlPathname(img), lastIndexOf(urlPathname(img), "/") + 1,
              lastIndexOf(urlPathname(img), ":"))
imageTag(img) ==
    substring(urlPathname(img), lastIndexOf(urlPathname(img), ":") + 1,
              Len(urlPathname(img)))
\* docker.ts 485: https://<host>/v2/<project>/<imageName>/manifests/<imageTag>,
\* kept as the host, the repository and the reference of the manifest endpoint
manifestEndpoint(img, proj) ==
    [host |-> urlHost(img),
     repository |-> proj \o <<"/">> \o imageName(img),
     reference |-> imageTag(img)]
NoManifestUrl ==
    [host |-> <<>>, repository |-> <<>>, reference |-> <<>>]

(* ------------------------- service specification ----------------------- *)
\* the inputs service_account_name (required) and vpc_connector_name, and
\* the container configuration handed to the ServiceConfiguration
ServiceAccounts ==
    {"sa1", "sa2"}
VpcConnectors ==
    {"", "vpc1"}
ContainerConfigs ==
    { [envVars |-> <<>>, arguments |-> <<>>],
      [envVars |-> <<[name |-> "K", value |-> "1"]>>, arguments |-> <<"--port">>] }
\* a field the constructor leaves unset: if (vpcConnectorName) this.... = ...
Undefined ==
    "undefined"
optionalField(v) ==
    IF v = "" THEN Undefined ELSE v

(* ------------------------------- state --------------------------------- *)
VARIABLES
    name, allow_unauthenticated, delete_service,
    image, serviceAccountName, vpcConnectorName, containerConfig, credProject,
    service_account_key, reporter,
    run, runLog, pc, failed,
    envCred, credFile, nCredWrites, credContent,
    checkInterval, checkTimeout, waitAttempt, headLog, waitSleeps, waitResult,
    manifestUrl,
    envVarsFailed,
    project, probeResult, replaceResult, createResult,
    nProbe, nCreate, nReplace, nIam, sentDocs, nDelete, remoteNames,
    statusAttempt, nStatusGet, statusSleptMs, res, statusResult,
    deleteAnswer, deleteExit, urlOut, nUrlOut, outcome, err, comment, infoLog

inputVars ==
    <<name, allow_unauthenticated, delete_service, image, serviceAccountName,
      vpcConnectorName, containerConfig, credProject, service_account_key,
      reporter>>
runVars ==
    <<run, runLog>>
credVars ==
    <<envCred, credFile, nCredWrites, credContent>>
waitVars ==
    <<checkInterval, checkTimeout, waitAttempt, headLog, waitSleeps, waitResult,
      manifestUrl>>
reconcileVars ==
    <<project, probeResult, replaceResult, createResult, nProbe, nCreate,
      nReplace, nIam, sentDocs>>
statusVars ==
    <<statusAttempt, nStatusGet, statusSleptMs, res, statusResult>>
resultVars ==
    <<urlOut, nUrlOut, outcome, err>>
deleteVars ==
    <<nDelete, deleteAnswer, deleteExit, infoLog>>
vars ==
    <<inputVars, runVars, pc, failed, credVars, waitVars, envVarsFailed,
      reconcileVars, remoteNames, statusVars, resultVars, deleteVars, comment>>

\* the state of a freshly started process
FreshProcess ==
    /\ pc = "main"
    /\ failed = FALSE
    /\ envCred \in BOOLEAN
    /\ credFile = "none"
    /\ nCredWrites = 0
    /\ credContent = "none"
    /\ checkInterval = 0
    /\ checkTimeout = 0
    /\ waitAttempt = 0
    /\ headLog = <<>>
    /\ waitSleeps = 0
    /\ waitResult = "none"
    /\ manifestUrl = NoManifestUrl
    /\ envVarsFailed = FALSE
    /\ project = <<>>
    /\ probeResult = "none"
    /\ replaceResult = "none"
    /\ createResult = "none"
    /\ nProbe = 0
    /\ nCreate = 0
    /\ nReplace = 0
    /\ nIam = 0
    /\ sentDocs = {}
    /\ nDelete = 0
    /\ remoteNames = {}
    /\ statusAttempt = 0
    /\ nStatusGet = 0
    /\ statusSleptMs = 0
    /\ res = UnknownRes
    /\ statusResult = "none"
    /\ deleteAnswer = "none"
    /\ deleteExit = "none"
    /\ urlOut = NoUrl
    /\ nUrlOut = 0
    /\ outcome = NoOutcome
    /\ err = NoErr
    /\ comment = "none"
    /\ infoLog = {}

\* the same, of the process of the next invocation
FreshProcessNext ==
    /\ pc' = "main"
    /\ failed' = FALSE
    /\ envCred' \in BOOLEAN
    /\ credFile' = "none"
    /\ nCredWrites' = 0
    /\ credContent' = "none"
    /\ checkInterval' = 0
    /\ checkTimeout' = 0
    /\ waitAttempt' = 0
    /\ headLog' = <<>>
    /\ waitSleeps' = 0
    /\ waitResult' = "none"
    /\ manifestUrl' = NoManifestUrl
    /\ envVarsFailed' = FALSE
    /\ project' = <<>>
    /\ probeResult' = "none"
    /\ replaceResult' = "none"
    /\ createResult' = "none"
    /\ nProbe' = 0
    /\ nCreate' = 0
    /\ nReplace' = 0
    /\ nIam' = 0
    /\ sentDocs' = {}
    /\ nDelete' = 0
    /\ remoteNames' = {}
    /\ statusAttempt' = 0
    /\ nStatusGet' = 0
    /\ statusSleptMs' = 0
    /\ res' = UnknownRes
    /\ statusResult' = "none"
    /\ deleteAnswer' = "none"
    /\ deleteExit' = "none"
    /\ urlOut' = NoUrl
    /\ nUrlOut' = 0
    /\ outcome' = NoOutcome
    /\ err' = NoErr
    /\ comment' = "none"
    /\ infoLog' = {}

\* one image and one service specification, followed through whole runs
OneImage ==
    /\ image = imageRef(<<"g">>, <<"p", "/", "x">>, <<"v">>)
    /\ credProject = <<"p">>
OneServiceSpec ==
    /\ serviceAccountName = "sa1"
    /\ vpcConnectorName = "vpc1"
    /\ containerConfig = [envVars |-> <<[name |-> "K", value |-> "1"]>>,
                          arguments |-> <<"--port">>]
\* the key given as key material, and a progress reporter whose calls succeed
OneEnvironment ==
    /\ service_account_key = "key_material"
    /\ reporter = "reliable"

Init ==
    /\ name \in Names
    /\ allow_unauthenticated \in BoolInputs
    /\ delete_service \in BoolInputs
    /\ OneImage
    /\ OneServiceSpec
    /\ OneEnvironment
    /\ run = 1
    /\ runLog = <<>>
    /\ FreshProcess

(* ------------------------------- main ---------------------------------- *)
\* main.ts: if (core.getInput('delete_service') === 'false') create() else destroy()
mainPath(input) ==
    IF input = "false" THEN "create" ELSE "destroy"

Main ==
    /\ pc = "main"
    /\ pc' = mainPath(delete_service)
    /\ UNCHANGED <<inputVars, runVars, failed, credVars, waitVars, envVarsFailed,
                   reconcileVars, remoteNames, statusVars, resultVars, deleteVars,
                   comment>>

(* ------------------------ credential provisioning ---------------------- *)
\* variant: the test of the environment variable is missing
CredNeededAlways ==
    TRUE
\* setGoogleApplicationCredentials: the file is written (fs.writeFile, not
\* awaited) and the variable exported only when the variable is not set
CredNeeded ==
    ~envCred
\* fs.writeFile(randomTmpFile, serviceAccountKey, ...): the string handed to
\* the function is what is written
writtenKey(key) ==
    key
CredStep ==
    /\ envCred' = TRUE
    /\ credFile' = IF CredNeeded THEN "pending" ELSE credFile
    /\ nCredWrites' = IF CredNeeded THEN nCredWrites + 1 ELSE nCredWrites
    /\ credContent' = IF CredNeeded THEN writtenKey(service_account_key)
                      ELSE credContent

\* the callback of fs.writeFile: the write finished or failed (only logged)
WriteFileCallback ==
    /\ credFile = "pending"
    /\ credFile' \in {"written", "failed"}
    /\ UNCHANGED <<inputVars, runVars, pc, failed, envCred, nCredWrites,
                   credContent, waitVars,
                   envVarsFailed, reconcileVars, remoteNames, statusVars,
                   resultVars, deleteVars, comment>>

(* --------------------------- canonical name ---------------------------- *)
\* variant: replace without the g flag replaces the first underscore only
serviceNameFirstOnly(n) ==
    LET us == {i \in 1..Len(n) : n[i] = "_"}
    IN  IF us = {} THEN n
        ELSE [n EXCEPT ![CHOOSE i \in us : \A j \in us : i <= j] = "-"]
\* this.name.replace(/_/g, '-')
serviceName(n) ==
    [i \in 1..Len(n) |-> IF n[i] = "_" THEN "-" ELSE n[i]]

(* ------------------------- error propagation --------------------------- *)
\* an error thrown by a remote call that is not a GaxiosError 404
RemoteErr ==
    [message |-> "remote", logsLink |-> FALSE]

(* -------------------------- progress reporter -------------------------- *)
\* the answers of one call of github.addPullRequestComment or
\* github.updatePullRequestComment
reporterAnswers ==
    IF reporter = "failing" THEN {"ok", "raise"} ELSE {"ok"}
\* the error of a reporter call that raised
ReportErr ==
    [message |-> "report", logsLink |-> FALSE]
\* an awaited reporter call of create() or destroy() raises: nothing around
\* it handles the error but the catch of main(), or the outer catch of
\* destroy(), which calls setFailed
ReporterRaises ==
    /\ err' = ReportErr
    /\ failed' = TRUE
    /\ pc' = "done"
\* the comment after an update whose failure goes unnoticed (the call is not
\* awaited, or is the last statement of a catch that throws anyway): the new
\* text, or the old one when the call raised
commentAfter(text) ==
    IF reporter = "failing" THEN {text, comment} ELSE {text}

(* ---------------------- create(): image availability ------------------- *)
\* main.ts 18-28: the progress comment is posted and updated
CreateStart ==
    /\ pc = "create"
    /\ \E r \in reporterAnswers :
         IF r = "ok"
         THEN /\ comment' = "waiting_image"
              /\ pc' = "wait_cred"
              /\ UNCHANGED <<failed, err>>
         ELSE /\ ReporterRaises
              /\ UNCHANGED comment
    /\ UNCHANGED <<inputVars, runVars, credVars, waitVars, envVarsFailed,
                   reconcileVars, remoteNames, statusVars, urlOut, nUrlOut,
                   outcome, deleteVars>>

\* attempt < maxAttempts, with maxAttempts = (timeout * 60) / checkInterval in
\* IEEE arithmetic: x/0 is Infinity, -Infinity or NaN, and a comparison with
\* NaN is false
LoopContinues(attempt, timeout, interval) ==
    IF interval > 0 THEN attempt * interval < timeout * 60
    ELSE IF interval < 0 THEN attempt * interval > timeout * 60
    ELSE timeout > 0

\* the try/catch around auth.request (HEAD on the manifest)
waitClassify(o) ==
    IF o = "ok" THEN "return_true"
    ELSE IF IsGaxios(o) /\ ~Status404(o) THEN "throw"
    ELSE "retry"

\* waitForDockerImage up to the loop: credentials, auth client, and the two
\* polling inputs read with Number.parseInt(core.getInput(...)); an error of
\* the auth client leaves create() and reaches the catch of main()
WaitCred ==
    /\ pc = "wait_cred"
    /\ CredStep
    /\ \E a \in {"ok", "throw"} :
         IF a = "ok"
         THEN /\ manifestUrl' = manifestEndpoint(image, credProject)
              /\ \E t \in TimeoutChoices, i \in IntervalChoices :
                   /\ checkTimeout' = t
                   /\ checkInterval' = i
              /\ pc' = "wait_loop"
              /\ UNCHANGED <<failed, waitResult, err>>
         ELSE /\ waitResult' = "raised"
              /\ failed' = TRUE
              /\ err' = RemoteErr
              /\ pc' = "done"
              /\ UNCHANGED <<checkTimeout, checkInterval, manifestUrl>>
    /\ UNCHANGED <<inputVars, runVars, waitAttempt, headLog, waitSleeps,
                   envVarsFailed, reconcileVars, remoteNames, statusVars, urlOut,
                   nUrlOut, outcome, deleteVars, comment>>

\* one iteration of the loop: attempt++, the HEAD request, and either the
\* return, the throw (to main's catch) or delay(checkInterval * 1000)
WaitCheck ==
    /\ pc = "wait_loop"
    /\ LoopContinues(waitAttempt, checkTimeout, checkInterval)
    /\ waitAttempt < MaxWaitAttempts
    /\ \E o \in CallOutcomes :
         /\ waitAttempt' = waitAttempt + 1
         /\ headLog' = Append(headLog, o)
         /\ CASE waitClassify(o) = "return_true" ->
                   /\ waitResult' = "true"
                   /\ pc' = "wait_true"
                   /\ UNCHANGED <<failed, err, waitSleeps>>
              [] waitClassify(o) = "throw" ->
                   /\ waitResult' = "raised"
                   /\ failed' = TRUE
                   /\ err' = RemoteErr
                   /\ pc' = "done"
                   /\ UNCHANGED waitSleeps
              [] OTHER ->
                   /\ waitSleeps' = waitSleeps + 1
                   /\ UNCHANGED <<pc, failed, err, waitResult>>
    /\ UNCHANGED <<inputVars, runVars, credVars, checkInterval, checkTimeout,
                   manifestUrl, envVarsFailed, reconcileVars, remoteNames, statusVars, urlOut,
                   nUrlOut, outcome, deleteVars, comment>>

\* the loop condition fails: return false
WaitExhausted ==
    /\ pc = "wait_loop"
    /\ ~LoopContinues(waitAttempt, checkTimeout, checkInterval)
    /\ waitResult' = "false"
    /\ pc' = "wait_false"
    /\ UNCHANGED <<inputVars, runVars, failed, credVars, checkInterval,
                   checkTimeout, waitAttempt, headLog, waitSleeps, manifestUrl,
                   envVarsFailed,
                   reconcileVars, remoteNames, statusVars, resultVars, deleteVars,
                   comment>>

\* variant: the return after setFailed is missing
afterWaitNoReturn(found) ==
    "get_env"
\* main.ts 30: if (!(await gcloud.waitForDockerImage(...))) { ...; return }
afterWait(found) ==
    IF found THEN "get_env" ELSE "stop"

\* main.ts 30-38: the caller of waitForDockerImage. On false the comment is
\* updated, the run marked failed, and create() returns; on true the frame of
\* waitForDockerImage is gone and the image is inspected next
CreateAfterWait ==
    /\ pc \in {"wait_true", "wait_false"}
    /\ \E r \in reporterAnswers :
         IF r = "ok"
         THEN /\ failed' = (failed \/ waitResult # "true")
              /\ comment' = IF waitResult # "true" THEN "timed_out" ELSE "inspecting"
              /\ IF afterWait(waitResult = "true") = "stop"
                 THEN /\ pc' = "done"
                      /\ UNCHANGED waitVars
                 ELSE /\ pc' = "get_env"
                      /\ checkInterval' = 0
                      /\ checkTimeout' = 0
                      /\ waitAttempt' = 0
                      /\ headLog' = <<>>
                      /\ waitSleeps' = 0
                      /\ manifestUrl' = NoManifestUrl
                      /\ UNCHANGED waitResult
              /\ UNCHANGED err
         ELSE /\ ReporterRaises
              /\ UNCHANGED <<comment, waitVars>>
    /\ UNCHANGED <<inputVars, runVars, credVars, envVarsFailed, reconcileVars,
                   remoteNames, statusVars, urlOut, nUrlOut, outcome, deleteVars>>

\* docker.ts 131-137: only a RequestError marks the run failed; every error
\* is swallowed and the (possibly empty) configuration returned
getEnvVarsMarksFailed(o) ==
    o = "request_error"

\* variant: the catch rethrows what is not a RequestError
getEnvVarsReturnsOnRequestErrorOnly(o) ==
    o \in {"ok", "request_error"}
\* docker.ts 100-139: the pull, the inspection and the reading of the
\* inspected configuration are all inside the try, and its catch never
\* rethrows: the function returns the configuration whatever happened
getEnvVarsReturns(o) ==
    TRUE

\* what pulling and inspecting the image may meet: "request_error" is a
\* RequestError of got (pull or inspect failed), "type_error" the read of
\* Config.Env or Config.Labels of a configuration without them,
\* "other_error" any other thrown value
EnvVarsOutcomes ==
    {"ok", "request_error", "type_error", "other_error"}

\* main.ts 40-82: getEnvVarsFromImage and the comment updates before the
\* service is started
GetEnvVars ==
    /\ pc = "get_env"
    /\ \E o \in EnvVarsOutcomes, r \in reporterAnswers :
         /\ envVarsFailed' = (o # "ok")
         /\ IF getEnvVarsReturns(o)
            THEN IF r = "ok"
                 THEN /\ failed' = (failed \/ getEnvVarsMarksFailed(o))
                      /\ comment' = "starting"
                      /\ pc' = "cu_cred"
                      /\ UNCHANGED err
                 ELSE /\ ReporterRaises
                      /\ UNCHANGED comment
            ELSE /\ err' = RemoteErr
                 /\ failed' = TRUE
                 /\ pc' = "done"
                 /\ UNCHANGED comment
    /\ UNCHANGED <<inputVars, runVars, credVars, waitVars, reconcileVars,
                   remoteNames, statusVars, urlOut, nUrlOut, outcome, deleteVars>>

(* ------------------ ServiceConfiguration.createOrUpdate ---------------- *)
\* how a finished remote call is remembered
resultClass(o) ==
    IF o = "ok" THEN "ok"
    ELSE IF IsGaxios(o) /\ Status404(o) THEN "notfound"
    ELSE "error"

\* an error leaves createOrUpdate: its catch calls setFailed and rethrows,
\* the catch of create() writes the failure comment and rethrows, the catch
\* of main() calls setFailed
CreateOrUpdateThrows(e) ==
    /\ err' = e
    /\ failed' = TRUE
    /\ comment' \in commentAfter("failed")
    /\ pc' = "done"

\* variant: the document omits the arguments of the container
cloudRunCreateServiceNoArgs ==
    [name |-> serviceName(name),
     namespace |-> project,
     vpcAccessConnector |-> optionalField(vpcConnectorName),
     serviceAccountName |-> serviceAccountName,
     image |-> image,
     env |-> containerConfig.envVars,
     args |-> <<>>]
\* cloudRunCreateService(): the document sent as requestBody, built from the
\* fields of the ServiceConfiguration alone (apiVersion and kind are fixed;
\* image and service_account_name are required inputs, so always set)
cloudRunCreateService ==
    [name |-> serviceName(name),
     namespace |-> project,
     vpcAccessConnector |-> optionalField(vpcConnectorName),
     serviceAccountName |-> serviceAccountName,
     image |-> image,
     env |-> containerConfig.envVars,
     args |-> containerConfig.arguments]

\* docker.ts 192-201: credentials, auth client, project id
CUCred ==
    /\ pc = "cu_cred"
    /\ CredStep
    /\ \E a \in {"ok", "throw"} :
         IF a = "ok"
         THEN /\ project' = credProject
              /\ pc' = "cu_probe"
              /\ UNCHANGED <<failed, err, comment>>
         ELSE /\ CreateOrUpdateThrows(RemoteErr)
              /\ UNCHANGED project
    /\ UNCHANGED <<inputVars, runVars, waitVars, envVarsFailed, probeResult,
                   replaceResult, createResult, nProbe, nCreate, nReplace, nIam,
                   sentDocs,
                   remoteNames, statusVars, urlOut, nUrlOut, outcome,
                   deleteVars>>

\* docker.ts 208-255: one try block holds the probe and replaceService, and
\* its catch creates the service on a GaxiosError 404 and swallows the rest
afterProbe(o) ==
    IF o = "ok" THEN "cu_replace"
    ELSE IF IsGaxios(o) /\ Status404(o) THEN "cu_create"
    ELSE "cu_iam"

afterReplace(o) ==
    IF o = "ok" THEN "cu_iam"
    ELSE IF IsGaxios(o) /\ Status404(o) THEN "cu_create"
    ELSE "cu_iam"

\* run.namespaces.services.get (the probe)
CUProbe ==
    /\ pc = "cu_probe"
    /\ \E o \in CallOutcomes :
         /\ probeResult' = resultClass(o)
         /\ pc' = afterProbe(o)
    /\ nProbe' = nProbe + 1
    /\ remoteNames' = remoteNames \cup {<<"probe", serviceName(name)>>}
    /\ UNCHANGED <<inputVars, runVars, failed, credVars, waitVars, envVarsFailed,
                   project, replaceResult, createResult, nCreate, nReplace, nIam,
                   sentDocs, statusVars, resultVars, deleteVars, comment>>

\* run.namespaces.services.replaceService, its body from cloudRunCreateService
CUReplace ==
    /\ pc = "cu_replace"
    /\ \E o \in CallOutcomes :
         /\ replaceResult' = resultClass(o)
         /\ pc' = afterReplace(o)
    /\ nReplace' = nReplace + 1
    /\ sentDocs' = sentDocs \cup {<<"replace", cloudRunCreateService>>}
    /\ remoteNames' = remoteNames \cup {<<"replace", serviceName(name)>>,
                                        <<"replace_body", serviceName(name)>>}
    /\ UNCHANGED <<inputVars, runVars, failed, credVars, waitVars, envVarsFailed,
                   project, probeResult, createResult, nProbe, nCreate, nIam,
                   statusVars, resultVars, deleteVars, comment>>

\* run.namespaces.services.create; its catch only logs the error
CUCreate ==
    /\ pc = "cu_create"
    /\ \E o \in CallOutcomes :
         createResult' = resultClass(o)
    /\ pc' = "cu_iam"
    /\ nCreate' = nCreate + 1
    /\ sentDocs' = sentDocs \cup {<<"create", cloudRunCreateService>>}
    /\ remoteNames' = remoteNames \cup {<<"create_body", serviceName(name)>>}
    /\ UNCHANGED <<inputVars, runVars, failed, credVars, waitVars, envVarsFailed,
                   project, probeResult, replaceResult, nProbe, nReplace, nIam,
                   statusVars, resultVars, deleteVars, comment>>

\* if (core.getInput('allow_unauthenticated')): a string is truthy unless empty
iamNeeded(input) ==
    input # ""

\* setCloudRunServiceIAMPolicy: an error of setIamPolicy leaves createOrUpdate
CUIam ==
    /\ pc = "cu_iam"
    /\ IF iamNeeded(allow_unauthenticated)
       THEN /\ nIam' = nIam + 1
            /\ remoteNames' = remoteNames \cup {<<"iam", serviceName(name)>>}
            /\ \E o \in {"ok", "error"} :
                 IF o = "ok"
                 THEN /\ pc' = "cu_poll"
                      /\ UNCHANGED <<failed, err, comment>>
                 ELSE CreateOrUpdateThrows(RemoteErr)
       ELSE /\ pc' = "cu_poll"
            /\ UNCHANGED <<nIam, remoteNames, failed, err, comment>>
    /\ UNCHANGED <<inputVars, runVars, credVars, waitVars, envVarsFailed,
                   project, probeResult, replaceResult, createResult, nProbe,
                   nCreate, nReplace, sentDocs, statusVars, urlOut, nUrlOut, outcome,
                   deleteVars>>

(* ------------------- ServiceConfiguration.getStatus -------------------- *)
\* variant: the url is looked at before the condition
getStatusOutcomeUrlFirst(r) ==
    IF r.url # NoUrl THEN "ready"
    ELSE IF r.cond # "Unknown" THEN "failed"
    ELSE "continue"
\* docker.ts 387-403: the decision taken on one status document
getStatusOutcome(r) ==
    IF r.cond # "Unknown"
    THEN IF r.url # NoUrl THEN "ready" ELSE "failed"
    ELSE "continue"

\* docker.ts 395-401: the condition's message and the link to the logs
FailedErr(r) ==
    [message |-> r.message, logsLink |-> TRUE]
\* docker.ts 405-407
TimeoutErr ==
    [message |-> "Unable to retrieve service URL", logsLink |-> FALSE]

\* one iteration of the loop of getStatus: attempt++, delay(500), the status
\* get, and the decision; on Ready the url output is set, createOrUpdate
\* returns and create() writes the success comment. Of a document whose
\* condition is Unknown only the condition is kept in res
CUPoll ==
    /\ pc = "cu_poll"
    /\ statusAttempt < StatusMaxAttempts
    /\ statusAttempt' = statusAttempt + 1
    /\ statusSleptMs' = statusSleptMs + StatusDelayMs
    /\ nStatusGet' = nStatusGet + 1
    /\ remoteNames' = remoteNames \cup {<<"status", serviceName(name)>>}
    /\ \/ /\ statusResult' = "error"
          /\ CreateOrUpdateThrows(RemoteErr)
          /\ UNCHANGED <<res, urlOut, nUrlOut, outcome>>
       \/ \E r \in StatusResponses :
            /\ res' = IF r.cond = "Unknown" THEN UnknownRes ELSE r
            /\ CASE getStatusOutcome(r) = "ready" ->
                      /\ statusResult' = "ready"
                      /\ urlOut' = r.url
                      /\ nUrlOut' = nUrlOut + 1
                      /\ outcome' = [url |-> r.url,
                                     logsName |-> serviceName(name),
                                     deploymentDate |-> r.lastTransitionTime]
                      /\ pc' = "done"
                      /\ \E a \in reporterAnswers :
                           IF a = "ok"
                           THEN /\ comment' = "success"
                                /\ UNCHANGED <<failed, err>>
                           ELSE /\ comment' \in commentAfter("failed")
                                /\ failed' = TRUE
                                /\ err' = ReportErr
                 [] getStatusOutcome(r) = "failed" ->
                      /\ statusResult' = "failed"
                      /\ CreateOrUpdateThrows(FailedErr(r))
                      /\ UNCHANGED <<urlOut, nUrlOut, outcome>>
                 [] OTHER ->
                      UNCHANGED <<statusResult, pc, failed, comment, resultVars>>
    /\ UNCHANGED <<inputVars, runVars, credVars, waitVars, envVarsFailed,
                   reconcileVars, deleteVars>>

\* the loop condition fails: the timeout error is thrown
CUPollExhausted ==
    /\ pc = "cu_poll"
    /\ ~(statusAttempt < StatusMaxAttempts)
    /\ statusResult' = "timeout"
    /\ CreateOrUpdateThrows(TimeoutErr)
    /\ UNCHANGED <<inputVars, runVars, credVars, waitVars, envVarsFailed,
                   reconcileVars, remoteNames, statusAttempt, nStatusGet,
                   statusSleptMs, res, urlOut, nUrlOut, outcome,
                   deleteVars>>

(* ------------------------------ destroy() ------------------------------ *)
\* main.ts 119-128: the progress comment is posted
DestroyStart ==
    /\ pc = "destroy"
    /\ \E r \in reporterAnswers :
         IF r = "ok"
         THEN /\ comment' = "deleting"
              /\ pc' = "d_cred"
              /\ UNCHANGED <<failed, err>>
         ELSE /\ ReporterRaises
              /\ UNCHANGED comment
    /\ UNCHANGED <<inputVars, runVars, credVars, waitVars, envVarsFailed,
                   reconcileVars, remoteNames, statusVars, urlOut, nUrlOut,
                   outcome, deleteVars>>

\* an error leaves delete(): its catch calls setFailed and rethrows, the inner
\* catch of destroy() writes the failure comment, the outer one calls setFailed
DeleteThrows ==
    /\ deleteExit' = "raised"
    /\ err' = RemoteErr
    /\ failed' = TRUE
    /\ comment' \in commentAfter("delete_failed")
    /\ pc' = "done"

\* delete() returns: destroy() writes the success comment
DeleteReturns ==
    /\ deleteExit' = "returned"
    /\ comment' \in commentAfter("deleted")
    /\ pc' = "done"
    /\ UNCHANGED <<failed, err>>

\* docker.ts 331-339: credentials, auth client, project id
DCred ==
    /\ pc = "d_cred"
    /\ CredStep
    /\ \E a \in {"ok", "throw"} :
         IF a = "ok"
         THEN /\ project' = credProject
              /\ pc' = "d_delete"
              /\ UNCHANGED <<failed, err, comment, deleteExit>>
         ELSE /\ DeleteThrows
              /\ UNCHANGED project
    /\ UNCHANGED <<inputVars, runVars, waitVars, envVarsFailed, probeResult,
                   replaceResult, createResult, nProbe, nCreate, nReplace, nIam,
                   sentDocs,
                   remoteNames, statusVars, urlOut, nUrlOut, outcome,
                   nDelete,
                   deleteAnswer, infoLog>>

\* variant: the catch rethrows every error
deleteClassifyNoTolerance(o) ==
    IF o = "ok" THEN "deleted" ELSE "throw"
\* variant: the catch does not look at the status of a GaxiosError
deleteClassifyAnyGaxios(o) ==
    IF o = "ok" THEN "deleted"
    ELSE IF IsGaxios(o) THEN "absent"
    ELSE "throw"
\* docker.ts 344-362: the try/catch around run.namespaces.services.delete
deleteClassify(o) ==
    IF o = "ok" THEN "deleted"
    ELSE IF IsGaxios(o) /\ Status404(o) THEN "absent"
    ELSE "throw"

\* the delete call, answered by the remote platform
DDelete ==
    /\ pc = "d_delete"
    /\ nDelete' = nDelete + 1
    /\ remoteNames' = remoteNames \cup {<<"delete", serviceName(name)>>}
    /\ \E o \in CallOutcomes :
         /\ deleteAnswer' = o
         /\ CASE deleteClassify(o) = "deleted" ->
                   /\ infoLog' = infoLog \cup {"deleted"}
                   /\ DeleteReturns
              [] deleteClassify(o) = "absent" ->
                   /\ infoLog' = infoLog \cup {"does_not_exist"}
                   /\ DeleteReturns
              [] OTHER ->
                   /\ DeleteThrows
                   /\ UNCHANGED infoLog
    /\ UNCHANGED <<inputVars, runVars, credVars, waitVars, envVarsFailed,
                   reconcileVars, statusVars, urlOut, nUrlOut,
                   outcome>>

(* --------------------------- next invocation --------------------------- *)
\* the deletion is invoked again with the same inputs, in a new process (a
\* run of the create path carries nothing over to the next one, and is
\* followed alone)
NextRun ==
    /\ pc = "done"
    /\ mainPath(delete_service) = "destroy"
    /\ run < MaxRuns
    /\ run' = run + 1
    /\ runLog' = Append(runLog, [failed |-> failed, deleteAnswer |-> deleteAnswer])
    /\ FreshProcessNext
    /\ UNCHANGED inputVars

Next ==
    \/ Main
    \/ WriteFileCallback
    \/ CreateStart
    \/ WaitCred
    \/ WaitCheck
    \/ WaitExhausted
    \/ CreateAfterWait
    \/ GetEnvVars
    \/ CUCred
    \/ CUProbe
    \/ CUReplace
    \/ CUCreate
    \/ CUIam
    \/ CUPoll
    \/ CUPollExhausted
    \/ DestroyStart
    \/ DCred
    \/ DDelete
    \/ NextRun

Spec ==
    Init /\ [][Next]_vars

(* --------------- the key input and the progress reporter --------------- *)
\* whole runs of one service, started with the key given as key material or
\* as the path of a key file, and with a reporter whose calls succeed or may
\* raise
InitEnvironment ==
    /\ name = [i \in 1..MaxNameLen |-> "a"]
    /\ allow_unauthenticated = "false"
    /\ delete_service \in {"false", "true"}
    /\ OneImage
    /\ OneServiceSpec
    /\ service_account_key \in KeyInputs
    /\ reporter \in ReporterKinds
    /\ run = 1
    /\ runLog = <<>>
    /\ FreshProcess

SpecEnvironment ==
    InitEnvironment /\ [][Next]_vars

(* ------------------- the image reference, over many images ------------- *)
\* runs of the create path up to the start of the image checks, started
\* with every image reference and every project of the credentials
InitImage ==
    /\ name = [i \in 1..MaxNameLen |-> "a"]
    /\ allow_unauthenticated = "false"
    /\ delete_service = "false"
    /\ image \in ImageRefs
    /\ credProject \in Projects
    /\ OneServiceSpec
    /\ OneEnvironment
    /\ run = 1
    /\ runLog = <<>>
    /\ FreshProcess

NextImage ==
    \/ Main
    \/ CreateStart
    \/ WaitCred

SpecImage ==
    InitImage /\ [][NextImage]_vars

(* ------------- the service document, over many specifications ---------- *)
\* runs of the create path up to the end of the reconcile step, started
\* with every service specification
DocumentImages ==
    {imageRef(<<"g">>, <<"p", "/", "x">>, t) : t \in Tags}

InitDocument ==
    /\ name \in Names
    /\ allow_unauthenticated = "false"
    /\ delete_service = "false"
    /\ image \in DocumentImages
    /\ credProject \in Projects
    /\ serviceAccountName \in ServiceAccounts
    /\ vpcConnectorName \in VpcConnectors
    /\ containerConfig \in ContainerConfigs
    /\ OneEnvironment
    /\ run = 1
    /\ runLog = <<>>
    /\ FreshProcess

NextDocument ==
    \/ Main
    \/ WriteFileCallback
    \/ CreateStart
    \/ WaitCred
    \/ WaitCheck
    \/ WaitExhausted
    \/ CreateAfterWait
    \/ GetEnvVars
    \/ CUCred
    \/ CUProbe
    \/ CUReplace
    \/ CUCreate

SpecDocument ==
    InitDocument /\ [][NextDocument]_vars

(* ======================================================================= *)
(*                               properties                                *)
(* ======================================================================= *)
\* the reconcile step of createOrUpdate (probe and mutation) is over
Reconciled ==
    /\ probeResult # "none"
    /\ pc \in {"cu_iam", "cu_poll", "done"}

\* C1: one createOrUpdate issues exactly one Create and no Update when the
\* probe found no service, and exactly one Update and no Create when the
\* probe found the service, whatever the Update call answers.
C1_ExactlyOneMutation ==
    Reconciled =>
        /\ probeResult = "notfound" => (nCreate = 1 /\ nReplace = 0)
        /\ probeResult = "ok" => (nReplace = 1 /\ nCreate = 0)

\* the image checks that waitForDockerImage has made are in headLog
InImageWait ==
    pc \in {"wait_loop", "wait_true", "wait_false"}
AllNotFound(log, n) ==
    \A i \in 1..n : log[i] = "404"

\* C2: waitForDockerImage returns true on attempt N if and only if the first
\* N-1 manifest checks answered "not found" and the Nth answered that the
\* manifest exists, with no check after it; it returns false when every
\* check answered "not found".
C2_TrueIffFoundAfterNotFound ==
    InImageWait =>
        /\ waitResult = "true" <=>
              /\ headLog # <<>>
              /\ headLog[Len(headLog)] = "ok"
              /\ AllNotFound(headLog, Len(headLog) - 1)
        /\ waitResult = "true" => (pc = "wait_true" /\ waitAttempt = Len(headLog))
        /\ waitResult = "false" => AllNotFound(headLog, Len(headLog))

\* C3: the first manifest check that answers neither success nor "not found"
\* ends waitForDockerImage with that error: it is the last check, no sleep
\* follows it, and neither true nor false is returned.
C3_OtherErrorIsFatal ==
    \A i \in 1..Len(headLog) :
        headLog[i] \notin {"ok", "404"} =>
            /\ i = Len(headLog)
            /\ waitResult = "raised"
            /\ waitSleeps = i - 1
            /\ pc = "done"

\* C4: getStatus polls again only while the first condition is Unknown; the
\* first status whose condition is not Unknown ends the polling: with a url,
\* the url and the condition's lastTransitionTime are returned (Ready);
\* without, the error carries the condition's message and the logs link
\* (Failed). No poll follows Ready or Failed.
C4_StatusStateMachine ==
    /\ (pc = "cu_poll" /\ nStatusGet > 0) =>
          (res.cond = "Unknown" /\ statusResult = "none")
    /\ (nStatusGet > 0 /\ res.cond # "Unknown") =>
          /\ pc = "done"
          /\ statusResult = IF res.url # NoUrl THEN "ready" ELSE "failed"
    /\ statusResult = "ready" =>
          /\ res.cond # "Unknown"
          /\ res.url # NoUrl
          /\ urlOut = res.url
          /\ outcome.url = res.url
          /\ outcome.deploymentDate = res.lastTransitionTime
          /\ err = NoErr
    /\ statusResult = "failed" =>
          /\ res.cond # "Unknown"
          /\ res.url = NoUrl
          /\ err.message = res.message
          /\ err.logsLink
          /\ urlOut = NoUrl
          /\ outcome = NoOutcome

C4_Witness ==
    /\ statusResult = "ready"
    /\ nStatusGet = 3
    /\ outcome.url = "u1"
    /\ outcome.deploymentDate = "t1"

\* C5: getStatus fetches the status at most 100 times, 500 ms before each
\* fetch, whatever the inputs; after 100 fetches that all report Unknown it
\* fails with the timeout error, which no Failed condition produces, and no
\* url is returned or published.
C5_StatusBudget ==
    /\ nStatusGet <= 100
    /\ statusSleptMs = 500 * nStatusGet
    /\ statusResult = "timeout" =>
          /\ nStatusGet = 100
          /\ res.cond = "Unknown"
          /\ err = TimeoutErr
          /\ \A r \in StatusResponses : err # FailedErr(r)
          /\ urlOut = NoUrl
          /\ outcome = NoOutcome
          /\ failed
    /\ (pc = "done" /\ nStatusGet = 100 /\ res.cond = "Unknown"
            /\ statusResult # "error") => statusResult = "timeout"

C5_Witness ==
    /\ statusResult = "timeout"
    /\ pc = "done"
    /\ nStatusGet = 100
    /\ statusSleptMs = 50000

\* C6: when waitForDockerImage returns false or raises, the run stops and is
\* marked failed, and no probe, Create, Update, setIamPolicy or status call
\* is ever issued in it.
C6_NoMutationWithoutImage ==
    waitResult \in {"false", "raised"} =>
        /\ pc \in {"wait_false", "done"}
        /\ pc = "done" => failed
        /\ nProbe = 0
        /\ nCreate = 0
        /\ nReplace = 0
        /\ nIam = 0
        /\ nStatusGet = 0
        /\ remoteNames = {}

C6_Witness ==
    /\ waitResult = "false"
    /\ pc = "done"
    /\ failed
    /\ headLog = <<"404", "404">>
    /\ comment = "timed_out"

\* C7: a delete call answered 404 ends delete() without an error: the run is
\* not marked failed, exactly one delete call was made, and the deletion is
\* reported; a deletion invoked after a deletion that succeeded completes
\* without error as well.
C7_DeleteIdempotent ==
    /\ deleteAnswer = "404" =>
          /\ pc = "done"
          /\ deleteExit = "returned"
          /\ ~failed
          /\ err = NoErr
          /\ nDelete = 1
          /\ comment = "deleted"
    /\ \A i \in 1..Len(runLog) :
          (runLog[i].deleteAnswer = "ok" /\ deleteAnswer = "404") =>
              (~runLog[i].failed /\ ~failed)

C7_Witness ==
    /\ run = 2
    /\ runLog[1].deleteAnswer = "ok"
    /\ ~runLog[1].failed
    /\ deleteAnswer = "404"
    /\ pc = "done"
    /\ ~failed
    /\ nDelete = 1

\* C8: a delete call answered with any error other than 404 is fatal: the
\* error leaves delete(), the run is marked failed, and neither the
\* "deleted" message nor the success comment is written.
C8_DeleteErrorIsFatal ==
    deleteAnswer \in {"gaxios_status", "gaxios_noresp", "other"} =>
        /\ pc = "done"
        /\ deleteExit = "raised"
        /\ failed
        /\ err # NoErr
        /\ infoLog = {}
        /\ comment = "delete_failed"

C8_Witness ==
    /\ deleteAnswer = "gaxios_status"
    /\ deleteExit = "raised"
    /\ failed
    /\ nDelete = 1

\* C9: every remote call that names the service carries the canonical name:
\* the input name with each underscore replaced by a hyphen, so no name with
\* an underscore is sent; normalising a canonical name changes nothing.
C9_CanonicalNames ==
    /\ \A c \in remoteNames :
          /\ Len(c[2]) = Len(name)
          /\ \A i \in 1..Len(name) :
                /\ c[2][i] # "_"
                /\ c[2][i] = IF name[i] = "_" THEN "-" ELSE name[i]
          /\ serviceName(c[2]) = c[2]
    /\ serviceName(serviceName(name)) = serviceName(name)

C9_Witness ==
    /\ name = <<"_", "_">>
    /\ {<<"probe", <<"-", "-">>>>, <<"replace", <<"-", "-">>>>,
        <<"replace_body", <<"-", "-">>>>, <<"create_body", <<"-", "-">>>>,
        <<"iam", <<"-", "-">>>>, <<"status", <<"-", "-">>>>} \subseteq remoteNames

\* the delete path sends the canonical name as well
C9_WitnessDelete ==
    /\ name = <<"a", "_">>
    /\ <<"delete", <<"a", "-">>>> \in remoteNames

\* C10: the Authorize step issues setIamPolicy if and only if
\* allow_unauthenticated is true; with false, the declared default, it
\* issues none.
C10_IamIffAllowTrue ==
    /\ pc = "cu_poll" => (nIam = 1 <=> allow_unauthenticated = "true")
    /\ nIam > 0 => allow_unauthenticated = "true"

\* the positions of the two paths of main()
OnCreatePath ==
    pc \in {"create", "wait_cred", "wait_loop", "wait_true", "wait_false", "get_env",
            "cu_cred", "cu_probe", "cu_replace", "cu_create", "cu_iam", "cu_poll"}
OnDestroyPath ==
    pc \in {"destroy", "d_cred", "d_delete"}

\* C11: the delete path runs if and only if delete_service is true; for
\* every other value of the input (false, or an input that is empty) the
\* create-or-update path runs; no invocation issues both a delete call and
\* a create or replace call.
C11_DeleteIffTrue ==
    /\ OnDestroyPath => delete_service = "true"
    /\ OnCreatePath => delete_service # "true"
    /\ nDelete > 0 => delete_service = "true"
    /\ (pc = "done" /\ delete_service # "true") => nDelete = 0
    /\ ~(nDelete > 0 /\ nCreate + nReplace > 0)

\* C12: a reconciliation that ends Ready publishes the url output exactly
\* once, with the url the status poll returned, and produces the one
\* DeploymentOutcome; a run of the create path that met a fatal error (the
\* image wait returned false or raised, the probe, the Create call, the
\* setIamPolicy call or a status get answered an error, the condition was
\* Failed, or the polls ran out) ends marked failed with no url published.
C12_UrlOnlyOnSuccess ==
    /\ nUrlOut <= 1
    /\ statusResult = "ready" =>
          /\ nUrlOut = 1
          /\ urlOut = res.url
          /\ outcome # NoOutcome
          /\ outcome.url = res.url
    /\ nUrlOut = 1 => (statusResult = "ready" /\ outcome # NoOutcome)
    /\ (pc = "done" /\ (\/ waitResult \in {"false", "raised"}
                        \/ probeResult = "error"
                        \/ (probeResult = "notfound" /\ createResult = "error")
                        \/ statusResult \in {"failed", "timeout", "error"}
                        \/ err # NoErr)) =>
          /\ failed
          /\ nUrlOut = 0
          /\ urlOut = NoUrl
          /\ outcome = NoOutcome

\* C13: with a positive image_check_timeout (minutes) and a positive
\* image_check_interval (seconds) and a registry that answers "not found" to
\* every check, waitForDockerImage makes floor(timeout * 60 / interval)
\* checks, also when the interval does not divide the timeout, and then
\* returns false (1 minute and 30 seconds: 2 checks).
C13_ChecksAreFloor ==
    (InImageWait /\ checkTimeout > 0 /\ checkInterval > 0
        /\ AllNotFound(headLog, Len(headLog))) =>
        /\ Len(headLog) <= (checkTimeout * 60) \div checkInterval
        /\ pc = "wait_false" =>
              /\ Len(headLog) = (checkTimeout * 60) \div checkInterval
              /\ waitAttempt = Len(headLog)
              /\ waitResult = "false"

\* C14: with image_check_timeout or image_check_interval zero or negative,
\* waitForDockerImage ends with an error before any manifest check: it never
\* enters its loop, and it never returns false without having checked.
C14_NonPositiveFailsFast ==
    /\ (InImageWait /\ (checkTimeout <= 0 \/ checkInterval <= 0)) =>
          /\ pc # "wait_loop"
          /\ waitResult = "raised"
          /\ headLog = <<>>
    /\ (pc = "wait_false" /\ waitResult = "false") => headLog # <<>>

\* C15: for every image reference host/repo:tag, of one or more repository
\* segments, the host, repository and tag of the manifest endpoint that
\* waitForDockerImage checks are not empty and are those of the reference:
\* put together again as host/repo:tag they give the input.
C15_ManifestOfImage ==
    pc = "wait_loop" =>
        /\ manifestUrl.host # <<>>
        /\ manifestUrl.repository # <<>>
        /\ manifestUrl.reference # <<>>
        /\ imageRef(manifestUrl.host, manifestUrl.repository,
                    manifestUrl.reference) = image

\* a step that calls setGoogleApplicationCredentials: one that leaves the
\* start of waitForDockerImage, createOrUpdate or delete
CredCallStep ==
    /\ pc \in {"wait_cred", "cu_cred", "d_cred"}
    /\ pc' # pc

\* C16: within one process the credential location is exported at most
\* once and at most one temporary key file is written, however many times
\* setGoogleApplicationCredentials is called (by waitForDockerImage,
\* createOrUpdate and delete); a call made when the location is already set
\* writes nothing and changes nothing.
C16_CredProvisionedOnce ==
    [][/\ nCredWrites' <= 1
       /\ (CredCallStep /\ envCred) => UNCHANGED credVars
       /\ (pc' # "main" /\ nCredWrites' # nCredWrites) =>
             (CredCallStep /\ ~envCred /\ envCred' /\ credFile' = "pending")]_vars

C16_Witness ==
    /\ pc = "cu_probe"
    /\ waitResult = "true"
    /\ envCred
    /\ nCredWrites = 1
    /\ credFile = "written"

\* C17: a probe answered with an error other than 404 (a GaxiosError of
\* another status or without a response, or another thrown value) ends
\* createOrUpdate with an error: the run is marked failed, and no Create,
\* Update, setIamPolicy or status call follows it.
C17_ProbeErrorIsFatal ==
    probeResult = "error" =>
        /\ pc = "done"
        /\ failed
        /\ err # NoErr
        /\ nCreate = 0
        /\ nReplace = 0
        /\ nIam = 0
        /\ nStatusGet = 0

\* C18: after a Create or Update call that failed with a cause other than
\* 404, setIamPolicy and the status polls are reached only when the probe
\* had found the service (a failed Update); a failed Create that followed a
\* probe answered 404 ends createOrUpdate with an error, the run marked
\* failed, and neither setIamPolicy nor a status get is issued.
C18_CreateErrorIsFatal ==
    /\ (probeResult = "notfound" /\ createResult = "error") =>
          /\ pc = "done"
          /\ failed
          /\ err # NoErr
          /\ nIam = 0
          /\ nStatusGet = 0
    /\ (pc \in {"cu_iam", "cu_poll"}
            /\ (createResult = "error" \/ replaceResult = "error")) =>
          (probeResult = "ok" /\ replaceResult = "error" /\ nCreate = 0)

\* C19: the document sent by Update and the one sent by Create are the same
\* function of the service specification, whatever the probe answered: its
\* name is the canonical service name, and it carries the image, the service
\* account, the VPC connector (none when the input is empty), the
\* environment variables and the arguments of the specification.
C19_CompleteDocument ==
    /\ \A d \in sentDocs :
          /\ d[1] \in {"create", "replace"}
          /\ Len(d[2].name) = Len(name)
          /\ \A i \in 1..Len(name) :
                d[2].name[i] = IF name[i] = "_" THEN "-" ELSE name[i]
          /\ d[2].namespace = credProject
          /\ d[2].image = image
          /\ d[2].serviceAccountName = serviceAccountName
          /\ d[2].vpcAccessConnector =
                IF vpcConnectorName = "" THEN Undefined ELSE vpcConnectorName
          /\ d[2].env = containerConfig.envVars
          /\ d[2].args = containerConfig.arguments
    /\ \A d1, d2 \in sentDocs : d1[2] = d2[2]
    /\ (nReplace > 0) = (\E d \in sentDocs : d[1] = "replace")
    /\ (nCreate > 0) = (\E d \in sentDocs : d[1] = "create")

C19_Witness ==
    /\ name = <<"a", "_">>
    /\ vpcConnectorName = "vpc1"
    /\ containerConfig.envVars # <<>>
    /\ containerConfig.arguments # <<>>
    /\ probeResult = "ok"
    /\ \E d1, d2 \in sentDocs :
          /\ d1[1] = "create"
          /\ d2[1] = "replace"
          /\ d1[2] = d2[2]
          /\ d1[2].name = <<"a", "-">>
          /\ d1[2].args = <<"--port">>

\* C20: the remote calls of a run of the create path come in this order:
\* credentials, image checks, the probe, at most one mutation (Create or
\* Update), setIamPolicy, status gets. No probe or mutation is issued before
\* the image check succeeded, and no Create, Update or setIamPolicy after
\* the first status get.
C20_CallOrder ==
    [][/\ Len(headLog') > Len(headLog) =>
             /\ envCred
             /\ nProbe = 0 /\ nCreate = 0 /\ nReplace = 0
             /\ nIam = 0 /\ nStatusGet = 0
       /\ nProbe' > nProbe =>
             /\ envCred
             /\ waitResult = "true"
             /\ nProbe = 0 /\ nCreate = 0 /\ nReplace = 0
             /\ nIam = 0 /\ nStatusGet = 0
       /\ (nCreate' > nCreate \/ nReplace' > nReplace) =>
             /\ waitResult = "true"
             /\ nProbe = 1 /\ nCreate = 0 /\ nReplace = 0
             /\ nIam = 0 /\ nStatusGet = 0
       /\ nIam' > nIam =>
             /\ nProbe = 1
             /\ nIam = 0 /\ nStatusGet = 0
       /\ nStatusGet' > nStatusGet =>
             /\ nProbe = 1
             /\ nCreate' = nCreate /\ nReplace' = nReplace /\ nIam' = nIam]_vars

\* C21: the credential file that setGoogleApplicationCredentials writes
\* holds key material, also when service_account_key is the path of an
\* existing file that holds it (the contents of that file, not the path);
\* and a write that fails ends the run with an error.
C21_KeyMaterialProvisioned ==
    /\ nCredWrites > 0 => credContent = "key_material"
    /\ credFile = "failed" =>
          /\ pc = "done"
          /\ failed
          /\ err # NoErr

\* C22: whatever pulling and inspecting the image meets (the pull or the
\* inspection fails, the configuration lacks Env or Labels, or all is well),
\* getEnvVarsFromImage returns a configuration and raises nothing, and the
\* run goes on to createOrUpdate.
C22_ExtractorNeverAborts ==
    [][(pc = "get_env" /\ pc' # pc) =>
           /\ pc' = "cu_cred"
           /\ err' = NoErr]_vars

C22_Witness ==
    /\ envVarsFailed
    /\ pc = "cu_replace"
    /\ nProbe = 1
    /\ err = NoErr

\* C23: a call of the progress reporter that raises is never propagated: the
\* run is not ended or marked failed with the reporter's error, a run of the
\* create path ends only through the image wait or through createOrUpdate,
\* and a run of the delete path only after delete() was called.
C23_ReporterNeverPropagates ==
    /\ err # ReportErr
    /\ (pc = "done" /\ delete_service = "false") =>
          /\ waitResult # "none"
          /\ waitResult = "true" => (err # NoErr \/ statusResult = "ready")
    /\ (pc = "done" /\ delete_service = "true") => deleteExit # "none"
    /\ (pc = "done" /\ failed) =>
          \/ waitResult \in {"false", "raised"}
          \/ envVarsFailed
          \/ err \notin {NoErr, ReportErr}

\* C24: createOrUpdate returns an outcome and the url output is published
\* only in a run whose Create or Update call succeeded; after a probe
\* answered with an error other than 404, or a Create or Update that
\* failed with no later successful mutation, no success is reported.
C24_SuccessNeedsMutation ==
    /\ (statusResult = "ready" \/ nUrlOut > 0 \/ outcome # NoOutcome) =>
          (replaceResult = "ok" \/ createResult = "ok")
    /\ probeResult = "error" => (nUrlOut = 0 /\ outcome = NoOutcome)

\* C25: getStatus returns a url only when the first condition's status is
\* True; when it is False no url is returned or published and getStatus
\* fails, also when the status document still carries a url.
C25_ReadyOnlyWhenTrue ==
    /\ statusResult = "ready" => res.cond = "True"
    /\ (nStatusGet > 0 /\ res.cond = "False") =>
          /\ statusResult = "failed"
          /\ urlOut = NoUrl
          /\ nUrlOut = 0
          /\ outcome = NoOutcome

\* a step that issues an authenticated request: a manifest check, or a call
\* of the Cloud Run API
RequestStep ==
    \/ Len(headLog') > Len(headLog)
    \/ nProbe' > nProbe
    \/ nReplace' > nReplace
    \/ nCreate' > nCreate
    \/ nIam' > nIam
    \/ nStatusGet' > nStatusGet
    \/ nDelete' > nDelete

\* C26: when setGoogleApplicationCredentials has started the write of the
\* credential file, the write has completed, or its failure has ended the
\* run, before any authenticated request is issued: no request is made
\* while the write is pending or after it failed.
C26_WriteCompleteBeforeUse ==
    [][RequestStep => credFile \in {"none", "written"}]_vars

\* C27: a run of the create path in which createOrUpdate returned and the
\* url output was published is not marked failed.
C27_SuccessIsNotFailed ==
    (pc = "done" /\ statusResult = "ready" /\ nUrlOut = 1) => ~failed

====
